---- MODULE Spec2Model ----
(***************************************************************************)
(* Training/evaluation control loop of the ONNX Runtime Web training demo:  *)
(* App.tsx (train, runTrainingEpoch, runTestingEpoch, logMessage,           *)
(* clearOutputs, loadTrainingSession) and data.ts (class ImageData).        *)
(*                                                                          *)
(* The specifications share the variables:                                  *)
(*   Spec         the React component when the start button is pressed      *)
(*                once: renders, the clock, and every suspension point of   *)
(*                train().                                                  *)
(*   SpecReentry  the same component and steps when the button is pressed   *)
(*                up to MaxRuns times.                                      *)
(*   SpecConfig   the same component when the user first edits the two       *)
(*                text fields that hold the maximum number of samples.      *)
(*   SpecData     ImageData alone: loadData, readLabelsFile and the batches *)
(*                generator applied to bounded listings and label files.    *)
(*   SpecIndexOfMax  indexOfMax alone, one round of its loop a step,        *)
(*                applied to bounded score vectors.                         *)
(***************************************************************************)
EXTENDS Integers, Sequences, FiniteSets, TLC

(* ------------------------------ bounds --------------------------------- *)
\* most invocations of train() in one behaviour
MaxRuns == 2
\* longest manifest (file listing) of a split
MaxFiles == 3
\* most lines of a labels file
MaxLines == 2
\* largest value of the ImageData.batchSize field that is explored
MaxBatchSize == 2
\* the clock advances in steps of TickMs up to MaxTime
TickMs == 750
MaxTime == 4000
\* longest score vector handed to indexOfMax, and the largest score in it
MaxClasses == 4
MaxScore == 2

(* ------------------------- program constants --------------------------- *)
numEpochs == 5
logIntervalMs == 1000
waitAfterLoggingMs == 500
maxNumTrainSamples == 293
maxNumTestSamples == 73

Splits == {"train", "test"}

Min(a, b) == IF a < b THEN a ELSE b

(* ------------------------------ data.ts -------------------------------- *)
\* JavaScript values that reach a comparison or a tensor slot
Undefined == [t |-> "undefined", dtype |-> "", v |-> 0, dim0 |-> 0]
BigIntVal(n) == [t |-> "bigint", v |-> n]
NumberVal(n) == [t |-> "number", v |-> n]
NaN == [t |-> "NaN", v |-> 0]

\* the characters of a line of a labels file: "0", "1", " " and "x"
Digit(c) == c \in {"0", "1"}
DigitVal(c) == IF c = "1" THEN 1 ELSE 0

\* String.prototype.trim
RECURSIVE TrimLeft(_)
TrimLeft(s) == IF s # <<>> /\ Head(s) = " " THEN TrimLeft(Tail(s)) ELSE s
RECURSIVE TrimRight(_)
TrimRight(s) ==
  IF s # <<>> /\ s[Len(s)] = " " THEN TrimRight(SubSeq(s, 1, Len(s) - 1)) ELSE s
Trim(s) == TrimRight(TrimLeft(s))

\* parseInt: the value of the longest prefix of digits, NaN when there is none
RECURSIVE DigitPrefix(_)
DigitPrefix(s) ==
  IF s # <<>> /\ Digit(Head(s)) THEN <<Head(s)>> \o DigitPrefix(Tail(s)) ELSE <<>>
RECURSIVE Decimal(_)
Decimal(ds) ==
  IF ds = <<>> THEN 0 ELSE 10 * Decimal(SubSeq(ds, 1, Len(ds) - 1)) + DigitVal(ds[Len(ds)])
parseInt(s) ==
  LET ds == DigitPrefix(TrimLeft(s)) IN IF ds = <<>> THEN NaN ELSE NumberVal(Decimal(ds))

RECURSIVE FilterNotNaN(_)
FilterNotNaN(s) ==
  IF s = <<>> THEN <<>>
  ELSE (IF Head(s) = NaN THEN <<>> ELSE <<Head(s)>>) \o FilterNotNaN(Tail(s))

\* Array.prototype.slice(start, end) on a 0-based array held as a 1-based sequence
Slice(s, start, end) == SubSeq(s, Min(start, Len(s)) + 1, Min(end, Len(s)))

\* the element at a 0-based index, undefined past the end
At(s, i) == IF i + 1 \in DOMAIN s THEN s[i + 1] ELSE Undefined

\* loadFilesInFolder: the lines of the listing that are not empty (a line is a
\* file name, a positive number, or 0 for an empty line)
loadFilesInFolder(listing) ==
  LET RECURSIVE NonEmpty(_)
      NonEmpty(s) ==
        IF s = <<>> THEN <<>>
        ELSE (IF Head(s) = 0 THEN <<>> ELSE <<Head(s)>>) \o NonEmpty(Tail(s))
  IN  NonEmpty(listing)

\* processImage: one float32 tensor of dims [1, byte count] per file
processImage(file) == [t |-> "tensor", dtype |-> "float32", v |-> file, dim0 |-> 1]

\* loadData: the first min(files.length, maxSamples) files, in manifest order
loadData(listing, maxSamples) ==
  LET files == loadFilesInFolder(listing)
  IN  [i \in 1..Min(Len(files), maxSamples) |-> processImage(files[i])]

\* readLabelsFile: parse every line, drop the NaN ones, keep the first maxSamples
LabelTensor(label) == [t |-> "tensor", dtype |-> "int64", v |-> label.v, dim0 |-> 1]
readLabelsFile(lines, maxSamples) ==
  LET labels == FilterNotNaN([i \in DOMAIN lines |-> parseInt(Trim(lines[i]))])
      kept == Slice(labels, 0, maxSamples)
  IN  [i \in DOMAIN kept |-> LabelTensor(kept[i])]

\* batches: Math.floor(data.length / batchSize) rounds
NumBatchesCeil(n, b) == (n + b - 1) \div b
NumBatches(n, b) == n \div b

\* batches: what round i (0-based) yields
BatchAt(data, labels, b, i) ==
  LET startIndex == i * b
      batchData == Slice(data, startIndex, startIndex + b)
      batchLabels == Slice(labels, startIndex, startIndex + b)
  IN  [data |-> At(batchData, 0), labels |-> At(batchLabels, 0)]

\* batches: everything one run of the generator yields, in order
Batches(data, labels, b) ==
  [k \in 1..NumBatches(Len(data), b) |-> BatchAt(data, labels, b, k - 1)]

\* batch.data.dims[0]: the number of samples a yielded batch carries
BatchDim0(batch) == IF batch.data.t = "undefined" THEN 0 ELSE batch.data.dim0

(* ------------------------------ state ---------------------------------- *)
VARIABLES
  \* the clock and the React component (Spec)
  now,               \* Date.now()
  runs,              \* the invocations of train(), in the order they started
  closures,          \* the renders a run was started from: their lastLogTime,
                     \* messagesQueue and captured enableLiveLogging
  isTraining,        \* React state, as set by the latest setIsTraining
  enableLiveLogging, \* React state
  statusMessage,     \* React state
  errorMessage,      \* React state
  messages,          \* React state as of the latest render
  msgUpdates,        \* the setMessages updates queued since the latest render
  trainingLosses,    \* React state
  testAccuracies,    \* React state
  disabled,          \* the disabled prop of the start button, as rendered
  dirty,             \* a render is due that changes the button, the log or the
                     \* closure a click starts from (setIsTraining, setMessages,
                     \* setEnableLiveLogging were called)
  startsLeft,        \* the presses of the start button the user has yet to make
  maxNumSamples,     \* React state maxNumTrainSamples and maxNumTestSamples: what
                     \* the two text fields hold, by split
  \* what the server holds and how ImageData is configured
  manifest,          \* split -> the lines of the listing <root>/<split>
  labelLines,        \* split -> the lines of <root>/<split>/<split>_labels.txt
  batchSize,         \* ImageData.batchSize
  hasBatchCounts,    \* whether the dataSet object has the methods
                     \* getNumTrainingBatches and getNumTestBatches
  \* ImageData alone (SpecData)
  dpc,               \* "start", "labels", "stream", "end" or "error"
  dFolder,           \* folderName
  dMax,              \* maxSamples
  dData,             \* what loadData returned
  dLabels,           \* what loadLabels returned
  dI,                \* the loop variable i of batches
  dYield,            \* the batches yielded so far, in order
  \* indexOfMax alone (SpecIndexOfMax)
  mpc,               \* "call", "loop", "returned" or "thrown"
  arr,               \* the argument
  maxIndex,          \* the local maxIndex
  idx                \* the loop variable i

appVars == <<now, runs, closures, isTraining, enableLiveLogging, statusMessage,
             errorMessage, messages, msgUpdates, trainingLosses, testAccuracies,
             disabled, dirty, startsLeft>>
envVars == <<manifest, labelLines, batchSize, hasBatchCounts, maxNumSamples>>
dataVars == <<dpc, dFolder, dMax, dData, dLabels, dI, dYield>>
utilVars == <<mpc, arr, maxIndex, idx>>
vars == <<now, runs, closures, isTraining, enableLiveLogging, statusMessage,
          errorMessage, messages, msgUpdates, trainingLosses, testAccuracies,
          disabled, dirty, startsLeft, manifest, labelLines, batchSize, hasBatchCounts,
          maxNumSamples,
          dpc, dFolder, dMax, dData, dLabels, dI, dYield, mpc, arr, maxIndex, idx>>

\* the listings of at most n lines: line i names file i or is empty
Listings(n) ==
  UNION {{[i \in 1..k |-> IF i \in blank THEN 0 ELSE i] : blank \in SUBSET (1..k)} : k \in 0..n}

\* the lines a labels file is drawn from
LineSet ==
  {<<"1">>, <<>>, <<"x">>, <<" ", "0", " ">>, <<"1", "x">>}
LabelFiles(n) == UNION {[1..k -> LineSet] : k \in 0..n}

\* a well-formed split of n files: listing 1..n and one parseable label a line
GoodListing(n) == [i \in 1..n |-> i]
GoodLabels(n) == [i \in 1..n |-> <<"1">>]

\* a closure of the component function: lines 15-16 and the captured state
FreshClosure(live) == [lastLogTime |-> 0, messagesQueue |-> <<>>, enableLiveLogging |-> live]

\* a status line that is no progress message
Status(text) == [run |-> 0, n |-> 0, text |-> text]

\* the component as mounted, lines 19-29, at time t0, before `starts` presses
\* of the start button
InitApp(starts, t0) ==
  /\ now = t0 /\ runs = <<>> /\ closures = <<FreshClosure(FALSE)>>
  /\ isTraining = FALSE /\ enableLiveLogging = FALSE
  /\ statusMessage = Status("") /\ errorMessage = ""
  /\ messages = <<>> /\ msgUpdates = <<>>
  /\ trainingLosses = <<>> /\ testAccuracies = <<>>
  /\ disabled = FALSE /\ dirty = FALSE /\ startsLeft = starts
  /\ maxNumSamples = [train |-> 293, test |-> 73]

\* indexOfMax is not looked at on its own
UtilIdle == mpc = "idle" /\ arr = <<>> /\ maxIndex = 0 /\ idx = 0

(* --------------------- ImageData alone: SpecData ----------------------- *)
\* the component is left alone
AppIdle == InitApp(0, 0)

\* ImageData is not looked at on its own
DataIdle ==
  /\ dpc = "idle" /\ dFolder = "train" /\ dMax = 0
  /\ dData = <<>> /\ dLabels = <<>> /\ dI = 0 /\ dYield = <<>>

InitData ==
  /\ dFolder \in Splits
  /\ manifest \in [Splits -> Listings(MaxFiles)]
  /\ labelLines \in [Splits -> LabelFiles(MaxLines)]
  /\ \A s \in Splits \ {dFolder} : manifest[s] = <<>> /\ labelLines[s] = <<>>
  /\ batchSize \in 1..MaxBatchSize
  /\ hasBatchCounts = FALSE
  /\ dMax \in 0..MaxFiles
  /\ dpc = "start"
  /\ dData = <<>> /\ dLabels = <<>> /\ dI = 0 /\ dYield = <<>>
  /\ AppIdle
  /\ UtilIdle

\* trainingBatches / testBatches, first await: loadData returned
DLoadData ==
  /\ dpc = "start"
  /\ dData' = loadData(manifest[dFolder], dMax)
  /\ dpc' = "labels"
  /\ UNCHANGED <<dFolder, dMax, dLabels, dI, dYield>>

\* second await: loadLabels returned; yield* this.batches(...) starts
DLoadLabels ==
  /\ dpc = "labels"
  /\ dLabels' = readLabelsFile(labelLines[dFolder], dMax)
  /\ dpc' = "stream"
  /\ dI' = 0
  /\ UNCHANGED <<dFolder, dMax, dData, dYield>>

\* a fetch of the listing, of an image or of the labels file fails
DFetchFail ==
  /\ dpc \in {"start", "labels"}
  /\ dpc' = "error"
  /\ UNCHANGED <<dFolder, dMax, dData, dLabels, dI, dYield>>

\* one round of the for loop of batches: a yield
DNextBatch ==
  /\ dpc = "stream"
  /\ dI < NumBatches(Len(dData), batchSize)
  /\ dYield' = Append(dYield, BatchAt(dData, dLabels, batchSize, dI))
  /\ dI' = dI + 1
  /\ UNCHANGED <<dpc, dFolder, dMax, dData, dLabels>>

\* the loop condition fails: the generator returns
DEndStream ==
  /\ dpc = "stream"
  /\ ~(dI < NumBatches(Len(dData), batchSize))
  /\ dpc' = "end"
  /\ UNCHANGED <<dFolder, dMax, dData, dLabels, dI, dYield>>

NextData ==
  \/ DLoadData /\ UNCHANGED <<envVars, appVars, utilVars>>
  \/ DLoadLabels /\ UNCHANGED <<envVars, appVars, utilVars>>
  \/ DFetchFail /\ UNCHANGED <<envVars, appVars, utilVars>>
  \/ DNextBatch /\ UNCHANGED <<envVars, appVars, utilVars>>
  \/ DEndStream /\ UNCHANGED <<envVars, appVars, utilVars>>

(* --------------------------- App.tsx: Spec ----------------------------- *)
\* The component's state as one record, so that the straight-line code between
\* two suspension points composes as functions from state to state.
S ==
  [now |-> now, runs |-> runs, closures |-> closures, isTraining |-> isTraining,
   enableLiveLogging |-> enableLiveLogging, statusMessage |-> statusMessage,
   errorMessage |-> errorMessage, messages |-> messages, msgUpdates |-> msgUpdates,
   trainingLosses |-> trainingLosses, testAccuracies |-> testAccuracies,
   disabled |-> disabled, dirty |-> dirty, startsLeft |-> startsLeft]

Apply(W) ==
  /\ now' = W.now /\ runs' = W.runs /\ closures' = W.closures
  /\ isTraining' = W.isTraining /\ enableLiveLogging' = W.enableLiveLogging
  /\ statusMessage' = W.statusMessage /\ errorMessage' = W.errorMessage
  /\ messages' = W.messages /\ msgUpdates' = W.msgUpdates
  /\ trainingLosses' = W.trainingLosses /\ testAccuracies' = W.testAccuracies
  /\ disabled' = W.disabled /\ dirty' = W.dirty /\ startsLeft' = W.startsLeft

\* the n-th message run r hands to logMessage
Msg(r, n) == [run |-> r, n |-> n, text |-> "log"]

\* an invocation of train() at its first suspension point
NewRun(c) ==
  [pc |-> "loading", cl |-> c, epoch |-> 0, batchNum |-> 0, batches |-> <<>>,
   after |-> "", wakeAt |-> 0, calls |-> <<>>, inflight |-> 0, posted |-> 0,
   numCorrect |-> 0, testPicsSoFar |-> 0,
   \* history: the passes begun and ended, the flushes, the rejected awaits
   passes |-> <<>>, flushCount |-> 0, lastFlushAt |-> 0, prevFlushAt |-> 0,
   lastFlushSince |-> 0, flushed |-> <<>>, failures |-> 0, callsAtFail |-> 0,
   \* history: the TypeErrors thrown, the lengths of the two series when the run
   \* failed, the training steps that returned, the predictions of this pass
   \* that name the label's class
   typeErrors |-> 0, lossesAtFail |-> 0, accsAtFail |-> 0, stepsDone |-> 0,
   matched |-> 0,
   \* history: what the text fields held when the run started, and the samples
   \* loaded for each split
   configured |-> [s \in Splits |-> 0], loaded |-> [s \in Splits |-> 0]]

\* a call on the training session is issued: it is logged and in flight
Issue(W, r, op) ==
  [W EXCEPT !.runs[r].calls =
              Append(@, [op |-> op, epoch |-> W.runs[r].epoch, batch |-> W.runs[r].batchNum,
                         pass |-> Len(W.runs[r].passes), inflight |-> W.runs[r].inflight]),
            !.runs[r].inflight = @ + 1,
            !.runs[r].pc = op]

\* the awaited call returned
Returned(W, r) == [W EXCEPT !.runs[r].inflight = @ - 1]

\* an awaited promise rejected: nothing in train() catches, so train() rejects
Throw(W, r) == [W EXCEPT !.runs[r].pc = "failed"]

\* history: run r threw, or a promise it awaited rejected
Rejected(W, r) ==
  [W EXCEPT !.runs[r].failures = @ + 1,
            !.runs[r].callsAtFail = IF W.runs[r].failures = 0 THEN Len(W.runs[r].calls) ELSE @,
            !.runs[r].lossesAtFail = Len(W.trainingLosses),
            !.runs[r].accsAtFail = Len(W.testAccuracies)]

\* the code of run r called what is no function, or read a property of
\* undefined: a TypeError, thrown inside train()
TypeError(W, r) ==
  Throw(Rejected([W EXCEPT !.runs[r].typeErrors = @ + 1], r), r)

\* logMessage line 38: is a flush due?
FlushDue(t, lastLogTime) == t - lastLogTime > logIntervalMs

\* logMessage line 45: lastLogTime after the pause
LastLogTimeKept(t, lastLogTime) == lastLogTime
LastLogTimeAfterPause(t, lastLogTime) == t

\* clearOutputs, lines 49-56, from the closure c
clearOutputs(W, c) ==
  [W EXCEPT !.trainingLosses = <<>>,
            !.testAccuracies = <<>>,
            !.msgUpdates = Append(@, [op |-> "set", cl |-> 0]),
            !.statusMessage = Status(""),
            !.errorMessage = "",
            !.closures[c].messagesQueue = <<>>,
            !.dirty = TRUE]

\* the division of line 112
DivZeroIsZero(a, b) == [t |-> "number", num |-> IF b = 0 THEN 0 ELSE a, den |-> IF b = 0 THEN 1 ELSE b]
Div(a, b) == IF b = 0 THEN [t |-> "NaN", num |-> a, den |-> b]
                      ELSE [t |-> "number", num |-> a, den |-> b]

\* countCorrectPredictions, lines 165-174: predictions[i] === labels.data[i]
\* compares a number with a bigint of an int64 tensor
StrictEq(a, b) == a.t = b.t /\ a.v = b.v
TensorData(tensor) ==
  IF tensor.dtype = "int64" THEN BigIntVal(tensor.v) ELSE NumberVal(tensor.v)
countCorrectPredictions(predictions, labels) ==
  Cardinality({i \in DOMAIN predictions :
                 StrictEq(NumberVal(predictions[i]), TensorData(labels))})

\* history: a pass of run r begins or ends
PassEvent(W, r, ev, phase) ==
  [W EXCEPT !.runs[r].passes =
              Append(@, [ev |-> ev, phase |-> phase, epoch |-> W.runs[r].epoch,
                         inflight |-> W.runs[r].inflight])]

RECURSIVE logMessage(_, _, _), Resume(_, _, _), runTrainingEpoch(_, _),
          runTestingEpoch(_, _), NextTrainBatch(_, _), NextTestBatch(_, _),
          AfterTrainingEpoch(_, _), AfterTrainingEpochNoTest(_, _),
          NextTestBatchTrains(_, _)

\* logMessage, lines 36-47, up to its await; k names the code that follows the
\* call. Without a flush the caller goes on at once.
logMessage(W, r, k) ==
  LET c == W.runs[r].cl
      message == Msg(r, W.runs[r].posted + 1)
      W1 == [W EXCEPT !.closures[c].messagesQueue = Append(@, message),
                      !.runs[r].posted = @ + 1]
  IN  IF FlushDue(W.now, W.closures[c].lastLogTime)
      THEN LET W2 == [W1 EXCEPT !.statusMessage = message]
               W3 == IF W.closures[c].enableLiveLogging
                     THEN [W2 EXCEPT !.msgUpdates = Append(@, [op |-> "append", cl |-> c]),
                                     !.dirty = TRUE,
                                     !.closures[c].messagesQueue = <<>>]
                     ELSE W2
           IN  [W3 EXCEPT !.runs[r].pc = "logWait",
                          !.runs[r].after = k,
                          !.runs[r].wakeAt = W.now + waitAfterLoggingMs,
                          !.runs[r].flushCount = @ + 1,
                          !.runs[r].prevFlushAt = W.runs[r].lastFlushAt,
                          !.runs[r].lastFlushAt = W.now,
                          !.runs[r].lastFlushSince = W.closures[c].lastLogTime,
                          !.runs[r].flushed =
                             IF W.closures[c].enableLiveLogging
                             THEN @ \o W1.closures[c].messagesQueue ELSE @]
      ELSE Resume(W1, r, k)

\* lines 67 and 91 call dataSet.getNumTrainingBatches() and
\* dataSet.getNumTestBatches(). The class ImageData of data.ts defines neither:
\* on an object of that class the call is a TypeError, which nothing catches.
\* On a data set that has them they return a count that only the text of the
\* progress messages uses.
CallBatchCount(W, r) ==
  IF hasBatchCounts THEN W ELSE TypeError(W, r)

\* runTrainingEpoch, lines 66-70
runTrainingEpoch(W, r) ==
  LET W1 == CallBatchCount([W EXCEPT !.runs[r].batchNum = 0], r)
  IN  IF W1.runs[r].pc = "failed" THEN W1
      ELSE logMessage(PassEvent(W1, r, "start", "train"), r, "trainingBatches")

\* runTestingEpoch, lines 90-96
runTestingEpoch(W, r) ==
  LET W1 == CallBatchCount([W EXCEPT !.runs[r].batchNum = 0,
                                     !.runs[r].numCorrect = 0,
                                     !.runs[r].testPicsSoFar = 0,
                                     !.runs[r].matched = 0], r)
  IN  IF W1.runs[r].pc = "failed" THEN W1
      ELSE logMessage(PassEvent(W1, r, "start", "test"), r, "testBatches")

\* train, lines 132-134
Complete(W, r) ==
  [W EXCEPT !.statusMessage = Status("Training completed"),
            !.isTraining = FALSE,
            !.dirty = TRUE,
            !.runs[r].pc = "done"]

\* train, lines 129-130: what follows the awaited runTrainingEpoch
AfterTrainingEpochNoTest(W, r) ==
  LET W1 == [W EXCEPT !.runs[r].epoch = @ + 1]
  IN  IF W1.runs[r].epoch < numEpochs THEN runTrainingEpoch(W1, r) ELSE Complete(W1, r)
AfterTrainingEpoch(W, r) == runTestingEpoch(W, r)

\* the for await of line 71 asks the generator for the next batch
NextTrainBatch(W, r) ==
  IF W.runs[r].batchNum < Len(W.runs[r].batches)
  THEN Issue([W EXCEPT !.runs[r].batchNum = @ + 1], r, "runTrainStep")
  ELSE AfterTrainingEpoch(PassEvent(W, r, "end", "train"), r)

\* the for await of line 97 asks the generator for the next batch; at its end
\* lines 112-114 and the loop of train, lines 128-131
NextTestBatchTrains(W, r) ==
  IF W.runs[r].batchNum < Len(W.runs[r].batches)
  THEN Issue([W EXCEPT !.runs[r].batchNum = @ + 1], r, "runTrainStep")
  ELSE LET avgAcc == Div(W.runs[r].numCorrect, W.runs[r].testPicsSoFar)
           W0 == PassEvent(W, r, "end", "test")
           W1 == [W0 EXCEPT !.testAccuracies = Append(@, avgAcc),
                            !.runs[r].epoch = @ + 1]
       IN  IF W1.runs[r].epoch < numEpochs
           THEN runTrainingEpoch(W1, r)
           ELSE Complete(W1, r)
NextTestBatch(W, r) ==
  IF W.runs[r].batchNum < Len(W.runs[r].batches)
  THEN Issue([W EXCEPT !.runs[r].batchNum = @ + 1], r, "runEvalStep")
  ELSE LET avgAcc == Div(W.runs[r].numCorrect, W.runs[r].testPicsSoFar)
           W0 == PassEvent(W, r, "end", "test")
           W1 == [W0 EXCEPT !.testAccuracies = Append(@, avgAcc),
                            !.runs[r].epoch = @ + 1]
       IN  IF W1.runs[r].epoch < numEpochs
           THEN runTrainingEpoch(W1, r)
           ELSE Complete(W1, r)

\* the code that follows an awaited logMessage
Resume(W, r, k) ==
  CASE k = "trainingBatches" -> [W EXCEPT !.runs[r].pc = "trainingBatches"]
    [] k = "runOptimizerStep" -> Issue(W, r, "runOptimizerStep")
    [] k = "testBatches" -> [W EXCEPT !.runs[r].pc = "testBatches"]
    [] k = "nextTestBatch" -> NextTestBatch(W, r)

\* runTrainingEpoch, line 84: what follows the awaited runOptimizerStep
AfterOptimizerStepNoReset(W, r) == NextTrainBatch(W, r)
AfterOptimizerStep(W, r) == Issue(W, r, "lazyResetGrad")

\* a call on the session rejected: lines 77, 83, 84 and 103 have no try
SkipFailedBatch(W, r) ==
  IF W.runs[r].pc = "runEvalStep" THEN NextTestBatch(W, r) ELSE NextTrainBatch(W, r)
EngineStepFailed(W, r) == Throw(W, r)

\* the setMessages updates of lines 41 and 52, run by React when it renders: the
\* updater of line 41 reads the closure's messagesQueue when it runs
RECURSIVE RunUpdates(_, _, _)
RunUpdates(state, updates, cls) ==
  IF updates = <<>> THEN state
  ELSE LET u == Head(updates)
           next == IF u.op = "set" THEN <<>> ELSE state \o cls[u.cl].messagesQueue
       IN  RunUpdates(next, Tail(updates), cls)

Running(r) == runs[r].pc \notin {"done", "failed"}

(* actions *)
\* the start button, lines 237-239: onClick={train} unless rendered disabled;
\* train lines 118-121 and loadTrainingSession up to its await, line 150
Click ==
  /\ ~disabled
  /\ startsLeft > 0
  /\ LET c == Len(closures)
         W1 == clearOutputs(S, c)
         W2 == [W1 EXCEPT !.isTraining = TRUE,
                          !.statusMessage = Status("Attempting to load training session..."),
                          !.runs = Append(@, [NewRun(c) EXCEPT !.configured = maxNumSamples]),
                          !.startsLeft = @ - 1]
     IN  Apply(W2)

\* ort.TrainingSession.create settled: lines 151-152 and 122-128, or 153-160
SessionLoaded(r) ==
  /\ runs[r].pc = "loading"
  /\ \E ok \in BOOLEAN :
       IF ok
       THEN LET W1 == [S EXCEPT !.closures[runs[r].cl].lastLogTime = now,
                                !.statusMessage = Status("Training started")]
            IN  Apply(runTrainingEpoch(W1, r))
       ELSE LET W1 == [S EXCEPT !.errorMessage = "Error loading the training session"]
            IN  Apply(Throw(Rejected(W1, r), r))

\* the fetches of trainingBatches settled, lines 17-20: the generator of batches
\* is handed the data and the labels
TrainingDataLoaded(r) ==
  /\ runs[r].pc = "trainingBatches"
  /\ \E ok \in BOOLEAN :
       IF ok
       THEN LET data == loadData(manifest["train"], maxNumTrainSamples)
                labels == readLabelsFile(labelLines["train"], maxNumTrainSamples)
                W1 == [S EXCEPT !.runs[r].batches = Batches(data, labels, batchSize),
                                !.runs[r].loaded["train"] = Len(data)]
            IN  Apply(NextTrainBatch(W1, r))
       ELSE Apply(Throw(Rejected(S, r), r))

\* runTrainStep settled: lines 78-82
TrainStepReturned(r) ==
  /\ runs[r].pc = "runTrainStep"
  /\ \E ok \in BOOLEAN :
       IF ok
       THEN LET loss == [run |-> r, epoch |-> runs[r].epoch, batch |-> runs[r].batchNum]
                W1 == [Returned(S, r) EXCEPT !.trainingLosses = Append(@, loss),
                                             !.runs[r].stepsDone = @ + 1]
            IN  Apply(logMessage(W1, r, "runOptimizerStep"))
       ELSE Apply(EngineStepFailed(Rejected(Returned(S, r), r), r))

\* runOptimizerStep settled: line 84
OptimizerStepReturned(r) ==
  /\ runs[r].pc = "runOptimizerStep"
  /\ \E ok \in BOOLEAN :
       IF ok
       THEN Apply(AfterOptimizerStep(Returned(S, r), r))
       ELSE Apply(EngineStepFailed(Rejected(Returned(S, r), r), r))

\* lazyResetGrad settled: the loop of line 71 goes round
ResetGradReturned(r) ==
  /\ runs[r].pc = "lazyResetGrad"
  /\ \E ok \in BOOLEAN :
       IF ok
       THEN Apply(NextTrainBatch(Returned(S, r), r))
       ELSE Apply(EngineStepFailed(Rejected(Returned(S, r), r), r))

\* the fetches of testBatches settled, lines 23-26
TestDataLoaded(r) ==
  /\ runs[r].pc = "testBatches"
  /\ \E ok \in BOOLEAN :
       IF ok
       THEN LET data == loadData(manifest["test"], maxNumTestSamples)
                labels == readLabelsFile(labelLines["test"], maxNumTestSamples)
                W1 == [S EXCEPT !.runs[r].batches = Batches(data, labels, batchSize),
                                !.runs[r].loaded["test"] = Len(data)]
            IN  Apply(NextTestBatch(W1, r))
       ELSE Apply(Throw(Rejected(S, r), r))

\* runEvalStep settled: lines 104-110; the engine's output holds one row of
\* scores for each row of the input, prediction is the index of its maximum
EvalStepReturned(r) ==
  /\ runs[r].pc = "runEvalStep"
  /\ \E ok \in BOOLEAN, prediction \in {0, 1} :
       IF ok
       THEN LET batch == runs[r].batches[runs[r].batchNum]
                predictions == [i \in 1..BatchDim0(batch) |-> prediction]
            IN  IF batch.labels.t = "undefined"
                THEN \* labels.data of undefined: a TypeError
                     Apply(TypeError(Returned(S, r), r))
                ELSE LET W1 == [Returned(S, r) EXCEPT
                                  !.runs[r].testPicsSoFar = @ + BatchDim0(batch),
                                  !.runs[r].matched =
                                     @ + Cardinality({i \in DOMAIN predictions :
                                                        predictions[i] = batch.labels.v}),
                                  !.runs[r].numCorrect =
                                     @ + countCorrectPredictions(predictions, batch.labels)]
                     IN  Apply(logMessage(W1, r, "nextTestBatch"))
       ELSE Apply(EngineStepFailed(Rejected(Returned(S, r), r), r))

\* the timer of line 44 fired: line 45 and the code after the logMessage call
LogPauseOver(r) ==
  /\ runs[r].pc = "logWait"
  /\ now >= runs[r].wakeAt
  /\ LET c == runs[r].cl
         W1 == [S EXCEPT !.closures[c].lastLogTime =
                           LastLogTimeAfterPause(now, closures[c].lastLogTime)]
     IN  Apply(Resume(W1, r, runs[r].after))

\* React renders the component: the queued setMessages updates run, the button
\* gets disabled={isTraining}, and the component function runs again, so a later
\* click starts from new lastLogTime and messagesQueue variables
Render ==
  /\ dirty
  /\ messages' = RunUpdates(messages, msgUpdates, closures)
  /\ msgUpdates' = <<>>
  /\ disabled' = isTraining
  /\ closures' =
       IF \E r \in DOMAIN runs : runs[r].cl = Len(closures)
       THEN Append(closures, FreshClosure(enableLiveLogging))
       ELSE [closures EXCEPT ![Len(closures)] = FreshClosure(enableLiveLogging)]
  /\ dirty' = FALSE
  /\ UNCHANGED <<now, runs, isTraining, enableLiveLogging, statusMessage, errorMessage,
                 trainingLosses, testAccuracies, startsLeft>>

\* the live-logging switch, line 232, used while no run is in flight
ToggleLiveLogging ==
  /\ ~dirty
  /\ \A r \in DOMAIN runs : ~Running(r)
  /\ enableLiveLogging' = ~enableLiveLogging
  /\ dirty' = TRUE
  /\ UNCHANGED <<now, runs, closures, isTraining, statusMessage, errorMessage, messages,
                 msgUpdates, trainingLosses, testAccuracies, disabled, startsLeft>>

\* the clock advances while a run is in flight
Tick ==
  /\ ~dirty
  /\ \E r \in DOMAIN runs : Running(r)
  /\ now + TickMs <= MaxTime
  /\ now' = now + TickMs
  /\ UNCHANGED <<runs, closures, isTraining, enableLiveLogging, statusMessage,
                 errorMessage, messages, msgUpdates, trainingLosses, testAccuracies,
                 disabled, dirty, startsLeft>>

\* the data sets a run of Spec meets: two training batches and one test batch,
\* two training batches and no test batch, one batch of MaxBatchSize samples a
\* pass, nothing at all
Shapes ==
  {[batchSize |-> 1, train |-> MaxLines, test |-> 1],
   [batchSize |-> 1, train |-> MaxLines, test |-> 0],
   [batchSize |-> MaxBatchSize, train |-> MaxBatchSize, test |-> MaxBatchSize],
   [batchSize |-> 1, train |-> 0, test |-> 0]}

Init ==
  /\ InitApp(1, 0)
  /\ DataIdle
  /\ UtilIdle
  /\ hasBatchCounts \in BOOLEAN
  /\ \E shape \in Shapes :
       /\ batchSize = shape.batchSize
       /\ manifest = [s \in Splits |-> GoodListing(shape[s])]
       /\ labelLines = [s \in Splits |-> GoodLabels(shape[s])]

\* React renders before the next task runs: while a render is due only the
\* render happens, or a press of the button that was dispatched before it
Next ==
  \/ Click /\ UNCHANGED <<envVars, dataVars, utilVars>>
  \/ Render /\ UNCHANGED <<envVars, dataVars, utilVars>>
  \/ ToggleLiveLogging /\ UNCHANGED <<envVars, dataVars, utilVars>>
  \/ Tick /\ UNCHANGED <<envVars, dataVars, utilVars>>
  \/ \E r \in DOMAIN runs :
       /\ ~dirty
       /\ UNCHANGED <<envVars, dataVars, utilVars>>
       /\ \/ SessionLoaded(r)
          \/ TrainingDataLoaded(r)
          \/ TrainStepReturned(r)
          \/ OptimizerStepReturned(r)
          \/ ResetGradReturned(r)
          \/ TestDataLoaded(r)
          \/ EvalStepReturned(r)
          \/ LogPauseOver(r)

Spec == Init /\ [][Next]_vars

\* the same component when the user presses the start button up to MaxRuns
\* times. The labels file of the test split is empty here: the first test batch
\* has no label, which ends every run in its first evaluation pass and keeps
\* the interleavings of the runs few enough to enumerate
InitReentry ==
  /\ InitApp(MaxRuns, 0)
  /\ DataIdle
  /\ UtilIdle
  /\ hasBatchCounts \in BOOLEAN
  /\ batchSize = 1
  /\ manifest = [s \in Splits |-> GoodListing(1)]
  /\ labelLines = [s \in Splits |-> IF s = "train" THEN GoodLabels(1) ELSE <<>>]

SpecReentry == InitReentry /\ [][Next]_vars

\* the same component when the user may first edit the two text fields. The
\* labels file of the test split is empty, as in SpecReentry
InitConfig ==
  /\ InitApp(1, 0)
  /\ DataIdle
  /\ UtilIdle
  /\ hasBatchCounts \in BOOLEAN
  /\ batchSize = 1
  /\ manifest = [s \in Splits |-> GoodListing(IF s = "train" THEN MaxLines ELSE 1)]
  /\ labelLines = [s \in Splits |-> IF s = "train" THEN GoodLabels(MaxLines) ELSE <<>>]

\* the text field of lines 213-219, edited before the run is started:
\* setMaxNumTrainSamples(Number(e.target.value))
SetMaxNumTrainSamples ==
  /\ runs = <<>> /\ ~dirty
  /\ \E n \in 0..MaxFiles : maxNumSamples' = [maxNumSamples EXCEPT !["train"] = n]
  /\ UNCHANGED <<appVars, manifest, labelLines, batchSize, hasBatchCounts, dataVars, utilVars>>

\* the text field of lines 222-228: setMaxNumTestSamples(Number(e.target.value))
SetMaxNumTestSamples ==
  /\ runs = <<>> /\ ~dirty
  /\ \E n \in 0..MaxFiles : maxNumSamples' = [maxNumSamples EXCEPT !["test"] = n]
  /\ UNCHANGED <<appVars, manifest, labelLines, batchSize, hasBatchCounts, dataVars, utilVars>>

NextConfig ==
  \/ SetMaxNumTrainSamples
  \/ SetMaxNumTestSamples
  \/ Next

SpecConfig == InitConfig /\ [][NextConfig]_vars

SpecData == InitData /\ [][NextData]_vars

(* ------------------- indexOfMax alone: SpecIndexOfMax ------------------ *)
\* the score vectors: Float32Arrays of at most MaxClasses numbers
ScoreVectors == UNION {[1..n -> 0..MaxScore] : n \in 0..MaxClasses}

InitIndexOfMax ==
  /\ arr \in ScoreVectors
  /\ mpc = "call" /\ maxIndex = 0 /\ idx = 0
  /\ AppIdle
  /\ DataIdle
  /\ hasBatchCounts = FALSE /\ batchSize = 1
  /\ manifest = [s \in Splits |-> <<>>] /\ labelLines = [s \in Splits |-> <<>>]

\* line 193: arr[i] > arr[maxIndex]
GreaterOrEqual(a, b) == a >= b
Greater(a, b) == a > b

\* lines 188-190: an empty array is an error
IndexOfMaxThrow ==
  /\ mpc = "call"
  /\ Len(arr) = 0
  /\ mpc' = "thrown"
  /\ UNCHANGED <<arr, maxIndex, idx>>

\* lines 191-192: let maxIndex = 0; let i = 1
IndexOfMaxEnter ==
  /\ mpc = "call"
  /\ Len(arr) # 0
  /\ maxIndex' = 0
  /\ idx' = 1
  /\ mpc' = "loop"
  /\ UNCHANGED arr

\* lines 192-196: one round of the loop (arr is indexed from 0 in the code)
IndexOfMaxStep ==
  /\ mpc = "loop"
  /\ idx < Len(arr)
  /\ maxIndex' = IF Greater(arr[idx + 1], arr[maxIndex + 1]) THEN idx ELSE maxIndex
  /\ idx' = idx + 1
  /\ UNCHANGED <<mpc, arr>>

\* line 197: return maxIndex
IndexOfMaxReturn ==
  /\ mpc = "loop"
  /\ ~(idx < Len(arr))
  /\ mpc' = "returned"
  /\ UNCHANGED <<arr, maxIndex, idx>>

NextIndexOfMax ==
  \/ IndexOfMaxThrow /\ UNCHANGED <<envVars, appVars, dataVars>>
  \/ IndexOfMaxEnter /\ UNCHANGED <<envVars, appVars, dataVars>>
  \/ IndexOfMaxStep /\ UNCHANGED <<envVars, appVars, dataVars>>
  \/ IndexOfMaxReturn /\ UNCHANGED <<envVars, appVars, dataVars>>

SpecIndexOfMax == InitIndexOfMax /\ [][NextIndexOfMax]_vars

(* ------------------------------ claims --------------------------------- *)
Runs == DOMAIN runs
Live(r) == closures[runs[r].cl].enableLiveLogging
TrainOps == {"runTrainStep", "runOptimizerStep", "lazyResetGrad"}
PhaseOf(op) == IF op \in TrainOps THEN "train" ELSE "test"

TrainCalls(r, e) ==
  SelectSeq(runs[r].calls, LAMBDA c : c.op \in TrainOps /\ c.epoch = e)
TrainPattern == <<"runTrainStep", "runOptimizerStep", "lazyResetGrad">>

\* C2: in a training pass the calls go runTrainStep, runOptimizerStep,
\* lazyResetGrad for batch 1, then the same for batch 2, and so on, and each is
\* issued only when no other call of the run is in flight.
C2_TrainStepOrder ==
  \A r \in Runs :
    /\ \A i \in DOMAIN runs[r].calls : runs[r].calls[i].inflight = 0
    /\ runs[r].inflight <= 1
    /\ \A e \in 0..(numEpochs - 1) :
         LET tc == TrainCalls(r, e)
         IN  \A j \in DOMAIN tc :
               /\ tc[j].op = TrainPattern[((j - 1) % 3) + 1]
               /\ tc[j].batch = ((j - 1) \div 3) + 1

C2_Witness ==
  \E r \in Runs : \E i \in DOMAIN runs[r].calls :
    /\ i > 1
    /\ runs[r].calls[i].op = "runTrainStep"
    /\ runs[r].calls[i].batch = 2
    /\ runs[r].calls[i - 1].op = "lazyResetGrad"

\* the i-th pass event of a run that nothing stops: start and end of the
\* training pass, then of the evaluation pass, epoch after epoch
ExpectedPass(i) ==
  [ev |-> IF (i - 1) % 2 = 0 THEN "start" ELSE "end",
   phase |-> IF ((i - 1) \div 2) % 2 = 0 THEN "train" ELSE "test",
   epoch |-> (i - 1) \div 4,
   inflight |-> 0]

\* C3: the passes of a run happen in the order train(0), eval(0), train(1),
\* eval(1), ...; a pass starts and ends with no call in flight, and every call
\* is issued inside the pass of its own phase and epoch.
C3_PassOrder ==
  \A r \in Runs :
    /\ Len(runs[r].passes) <= 4 * numEpochs
    /\ \A i \in DOMAIN runs[r].passes : runs[r].passes[i] = ExpectedPass(i)
    /\ \A i \in DOMAIN runs[r].calls :
         LET c == runs[r].calls[i]
         IN  /\ c.pass \in DOMAIN runs[r].passes
             /\ runs[r].passes[c.pass].ev = "start"
             /\ runs[r].passes[c.pass].phase = PhaseOf(c.op)
             /\ runs[r].passes[c.pass].epoch = c.epoch

C3_Witness ==
  \E r \in Runs : \E i, j \in DOMAIN runs[r].calls :
    /\ i < j
    /\ runs[r].calls[i].op = "runEvalStep" /\ runs[r].calls[i].epoch = 0
    /\ runs[r].calls[j].op = "runTrainStep" /\ runs[r].calls[j].epoch = 1

\* C4: every batch the stream yields holds batchSize samples and batchSize
\* labels, the slice [i*batchSize, (i+1)*batchSize) of the source.
C4_BatchHoldsBatchSize ==
  \A k \in DOMAIN dYield :
    /\ BatchDim0(dYield[k]) = batchSize
    /\ dYield[k].labels.t # "undefined" => dYield[k].labels.dim0 = batchSize

\* C5: a source of n samples yields floor(n / b) batches and then ends: never
\* more than fit, all that fit once it has ended, none when n < b, and an error
\* arises only while loading, before anything is yielded.
C5_BatchCount ==
  LET n == Len(dData)
      k == Len(dYield)
  IN  /\ k * batchSize <= n
      /\ dpc = "end" => n < (k + 1) * batchSize
      /\ \A i \in DOMAIN dYield : dYield[i].data = dData[(i - 1) * batchSize + 1]
      /\ dpc = "error" => k = 0

C5_Witness ==
  /\ dpc = "end"
  /\ Len(dYield) >= 1
  /\ Len(dData) > Len(dYield) * batchSize

\* C6: a loaded split has as many labels as samples, at most maxSamples of
\* each, and no batch is built from a sample that has no label.
C6_SamplesMatchLabels ==
  dpc \in {"stream", "end"} =>
    /\ Len(dData) = Len(dLabels)
    /\ Len(dData) <= dMax
    /\ \A k \in DOMAIN dYield : dYield[k].labels.t # "undefined"

\* C7: with live logging off, the pending-message buffer is empty right after
\* a flush.
C7_FlushDiscardsBuffer ==
  \A r \in Runs :
    (runs[r].pc = "logWait" /\ ~Live(r)) => closures[runs[r].cl].messagesQueue = <<>>

\* C8: with live logging on, a flush adds to the displayed log the messages
\* buffered since the flush before it, in the order they were posted, and makes
\* the message that set it off the status line.
C8_FlushAppendsBuffered ==
  \A r \in Runs :
    Live(r) =>
      /\ runs[r].pc = "logWait" => statusMessage = Msg(r, runs[r].posted)
      /\ (~dirty /\ msgUpdates = <<>>) => messages = runs[r].flushed

\* C9: a flush happens only when more than logIntervalMs has passed since
\* lastLogTime, and two flushes of a run in a row are more than logIntervalMs
\* apart.
C9_FlushRate ==
  \A r \in Runs :
    /\ runs[r].flushCount >= 1 =>
         runs[r].lastFlushAt - runs[r].lastFlushSince > logIntervalMs
    /\ runs[r].flushCount >= 2 =>
         runs[r].lastFlushAt - runs[r].prevFlushAt > logIntervalMs

C9_Witness == \E r \in Runs : runs[r].flushCount >= 2

\* C10: once the session load or a call on the session has failed, the run is
\* over: it issues no call after the one that failed.
C10_FailureAborts ==
  \A r \in Runs :
    runs[r].failures > 0 =>
      /\ runs[r].pc = "failed"
      /\ runs[r].failures = 1
      /\ runs[r].inflight = 0
      /\ Len(runs[r].calls) = runs[r].callsAtFail

C10_Witness ==
  \E r \in Runs :
    /\ runs[r].failures > 0
    /\ runs[r].calls # <<>>
    /\ runs[r].calls[Len(runs[r].calls)].op = "runTrainStep"
    /\ runs[r].batchNum < Len(runs[r].batches)

\* C11: when a run has failed because the session load, a fetch of the data or
\* a call on the session failed, the error message is not empty and the two
\* series are as long as they were when it failed.
C11_FailureShowsError ==
  \A r \in Runs :
    (runs[r].failures > 0 /\ runs[r].typeErrors = 0) =>
      /\ errorMessage # ""
      /\ Len(trainingLosses) = runs[r].lossesAtFail
      /\ Len(testAccuracies) = runs[r].accsAtFail

\* C12: a run that has failed is no longer shown as in flight: the in-training
\* flag is false again.
C12_FailureClearsInTraining ==
  \A r \in Runs : runs[r].failures > 0 => (runs[r].pc = "failed" /\ ~isTraining)

\* C13: a run stops short of completion only when the session load, a fetch of
\* the data or a call on the session failed, and a completed run has gone
\* through numEpochs training passes and numEpochs evaluation passes, has
\* published the final summary and has cleared the in-training flag.
C13_RunCompletes ==
  \A r \in Runs :
    /\ runs[r].pc = "failed" => runs[r].typeErrors = 0
    /\ runs[r].pc = "done" =>
         /\ Len(runs[r].passes) = 4 * numEpochs
         /\ Len(testAccuracies) = numEpochs
         /\ statusMessage = Status("Training completed")
         /\ ~isTraining

\* C14: the correct count of an evaluation pass is the number of samples so far
\* whose predicted class is the class their label names.
C14_CountsMatches ==
  \A r \in Runs : runs[r].pc # "failed" => runs[r].numCorrect = runs[r].matched

\* C15: indexOfMax returns the smallest index at which the largest score
\* stands, and it returns if and only if the vector is not empty: on an empty
\* vector it throws.
C15_FirstMaximum ==
  /\ mpc = "returned" =>
       /\ Len(arr) > 0
       /\ maxIndex \in 0..(Len(arr) - 1)
       /\ \A j \in 0..(Len(arr) - 1) :
            /\ arr[j + 1] <= arr[maxIndex + 1]
            /\ j < maxIndex => arr[j + 1] < arr[maxIndex + 1]
  /\ mpc = "thrown" => Len(arr) = 0
  /\ Len(arr) = 0 => mpc \in {"idle", "call", "thrown"}

C15_Witness == mpc = "returned" /\ arr = <<0, 1, 1, 0>> /\ maxIndex = 1

\* the test split yields no batch
ZeroTestBatches ==
  NumBatches(Len(loadData(manifest["test"], maxNumTestSamples)), batchSize) = 0
EndedTestPasses(r) ==
  Cardinality({i \in DOMAIN runs[r].passes :
                 runs[r].passes[i].ev = "end" /\ runs[r].passes[i].phase = "test"})

\* C16: an evaluation pass over a test split that yields no batch throws
\* nothing and reports NaN as its accuracy: every pass that ended has its NaN
\* entry, the run goes on with the next epoch, and a completed run has
\* numEpochs of them.
C16_EmptyEvaluation ==
  \A r \in Runs :
    (ZeroTestBatches /\ \E i \in DOMAIN runs[r].passes : runs[r].passes[i].phase = "test") =>
      /\ runs[r].typeErrors = 0
      /\ Len(testAccuracies) = EndedTestPasses(r)
      /\ \A i \in DOMAIN testAccuracies :
           testAccuracies[i].t = "NaN" /\ testAccuracies[i].den = 0
      /\ runs[r].passes[Len(runs[r].passes)].ev = "end" =>
           (runs[r].pc = "done" /\ runs[r].epoch = numEpochs)
      /\ runs[r].pc = "done" => Len(testAccuracies) = numEpochs

C16_Witness ==
  \E r \in Runs :
    /\ ZeroTestBatches
    /\ runs[r].pc = "done"
    /\ runs[r].stepsDone > 0
    /\ Len(testAccuracies) = numEpochs
    /\ testAccuracies[numEpochs].t = "NaN"

\* C17: the samples loaded for a split are never more than the maximum the
\* text field of that split held when the run started.
C17_ConfiguredMaximum ==
  \A r \in Runs : \A s \in Splits : runs[r].loaded[s] <= runs[r].configured[s]

PassOfCall(r, i) == runs[r].passes[runs[r].calls[i].pass]
InTestPass(r) ==
  /\ runs[r].passes # <<>>
  /\ runs[r].passes[Len(runs[r].passes)].ev = "start"
  /\ runs[r].passes[Len(runs[r].passes)].phase = "test"

\* C19: between the start and the end of an evaluation pass the only call
\* issued on the session is runEvalStep: none of runTrainStep,
\* runOptimizerStep, lazyResetGrad is issued or in flight.
C19_EvalIssuesOnlyEval ==
  \A r \in Runs :
    /\ \A i \in DOMAIN runs[r].calls :
         (runs[r].calls[i].pass >= 1 /\ PassOfCall(r, i).phase = "test") =>
           (PassOfCall(r, i).ev = "start" /\ runs[r].calls[i].op = "runEvalStep")
    /\ InTestPass(r) => runs[r].pc \notin TrainOps

C19_Witness ==
  \E r \in Runs :
    /\ EndedTestPasses(r) >= 1
    /\ \E i \in DOMAIN runs[r].calls : runs[r].calls[i].op = "runEvalStep"

\* the messages run r has handed to logMessage, in the order it posted them
Posted(r) == [i \in 1..runs[r].posted |-> Msg(r, i)]

\* C20: with live logging on, once the display is up to date the displayed log
\* followed by the pending buffer is the sequence of the messages posted since
\* the run started: none lost, none twice, none out of order.
C20_NothingLost ==
  \A r \in Runs :
    (Live(r) /\ ~dirty /\ msgUpdates = <<>>) =>
      messages \o closures[runs[r].cl].messagesQueue = Posted(r)

====
